---- MODULE Spec2Model ----
(***************************************************************************)
(* Model of the push-notification relay in src/server.js: the change-feed  *)
(* listener, the manual-send HTTP route, sendNotification and the SIGTERM  *)
(* shutdown handler.                                                       *)
(*                                                                         *)
(* JavaScript values are tagged records, so that a string, a number, null, *)
(* undefined, a function and an object stay distinct and the operators     *)
(* || , ! , property lookup and object spread are computed as JavaScript   *)
(* computes them.  The emoji that start the default titles in the source   *)
(* are written as ASCII tags ("(heart) ", "(speech) ", ...) because TLA+   *)
(* strings are ASCII.                                                      *)
(***************************************************************************)
EXTENDS Naturals, FiniteSets, TLC

VARIABLES lifecycle, accepting, subscribed, adminApp, exitCode,
          tasks, delivered, requests, lastFailed

vars == <<lifecycle, accepting, subscribed, adminApp, exitCode,
          tasks, delivered, requests, lastFailed>>

(***************************************************************************)
(* Bounds of the model.                                                    *)
(***************************************************************************)
\* feed events delivered in one behaviour
MaxEvents == 2
\* manual-send requests received in one behaviour
MaxRequests == 1
\* handlers that may be suspended at an await at the same time (Spec)
MaxInFlight == 2

(***************************************************************************)
(* JavaScript values                                                       *)
(***************************************************************************)
Undef == [t |-> "undefined"]
Null == [t |-> "null"]
Str(s) == [t |-> "string", v |-> s]
Num(s) == [t |-> "number", v |-> s]
Fn(name) == [t |-> "function", v |-> name]
Obj(props) == [t |-> "object", props |-> props]

\* a field of a task that has no value yet
None == [t |-> "none"]

\* ToBoolean
Truthy(v) ==
  CASE v.t = "undefined" -> FALSE
    [] v.t = "null" -> FALSE
    [] v.t = "string" -> v.v # ""
    [] v.t = "number" -> v.v \notin {"0", "NaN"}
    [] OTHER -> TRUE

\* a || b
Or(a, b) == IF Truthy(a) THEN a ELSE b

\* ToPropertyKey: the key under which obj[v] is looked up
ToPropertyKey(v) ==
  CASE v.t = "undefined" -> "undefined"
    [] v.t = "null" -> "null"
    [] v.t = "string" -> v.v
    [] v.t = "number" -> v.v
    [] OTHER -> "[object Object]"

\* the methods every object literal inherits from Object.prototype
ObjectPrototypeKeys ==
  {"constructor", "toString", "toLocaleString", "valueOf", "hasOwnProperty",
   "isPrototypeOf", "propertyIsEnumerable"}

\* own[key] on an object literal whose own properties are `own`
GetProp(own, key) ==
  IF key \in DOMAIN own THEN own[key]
  ELSE IF key \in ObjectPrototypeKeys THEN Fn(key)
  ELSE Undef

\* the own enumerable properties that ...v copies into an object literal
Spread(v) == IF v.t = "object" THEN v.props ELSE <<>>

\* { ...base, ...extra }: a later key replaces an earlier one
Merge(base, extra) ==
  [k \in DOMAIN base \cup DOMAIN extra |->
     IF k \in DOMAIN extra THEN extra[k] ELSE base[k]]

(***************************************************************************)
(* Message formatter                                                       *)
(***************************************************************************)
Categories == {"like", "comment", "follow", "reply", "mention"}

titles ==
  [c \in Categories |->
     CASE c = "like" -> Str("(heart) New Like")
       [] c = "comment" -> Str("(speech) New Comment")
       [] c = "follow" -> Str("(person) New Follower")
       [] c = "reply" -> Str("(arrow) New Reply")
       [] c = "mention" -> Str("@ Mention")]

messages ==
  [c \in Categories |->
     CASE c = "like" -> Str("Someone liked your post")
       [] c = "comment" -> Str("Someone commented on your post")
       [] c = "follow" -> Str("Someone started following you")
       [] c = "reply" -> Str("Someone replied to your comment")
       [] c = "mention" -> Str("Someone mentioned you")]

FallbackTitle == Str("New Notification")
FallbackMessage == Str("You have a new notification")

getTitleForType(type) == Or(GetProp(titles, ToPropertyKey(type)), FallbackTitle)

getMessageForType(type) ==
  Or(GetProp(messages, ToPropertyKey(type)), FallbackMessage)

(***************************************************************************)
(* Profile store and token lookup                                          *)
(***************************************************************************)
\* rows of the profiles table: u1 has a token, u2 has none, u3 an empty one
Profiles ==
  [u \in {"u1", "u2", "u3"} |->
     CASE u = "u1" -> [fcm_token |-> Str("tok-u1")]
       [] u = "u2" -> [fcm_token |-> Null]
       [] u = "u3" -> [fcm_token |-> Str("")]]

\* supabase.from('profiles').select('fcm_token').eq('id', userId).single():
\* the row, or an error when the transport fails or no single row matches
ProfileLookup(userId, transportOk) ==
  IF ~transportOk THEN [data |-> Null, error |-> Str("fetch failed")]
  ELSE IF userId.t = "string" /\ userId.v \in DOMAIN Profiles
    THEN [data |-> Profiles[userId.v], error |-> Null]
  ELSE [data |-> Null, error |-> Str("PGRST116")]

\* profiles?.fcm_token
TokenOf(res) == IF res.data = Null THEN Undef ELSE res.data.fcm_token

\* a guard that tests only the lookup error
HasTokenErrorOnly(res) == ~Truthy(res.error)

\* the negation of the guard  error || !profiles?.fcm_token
HasToken(res) == ~(Truthy(res.error) \/ ~Truthy(TokenOf(res)))

(***************************************************************************)
(* Delivery payload                                                        *)
(***************************************************************************)
\* a message that also carries a native notification field
MessageWithNotification(args, fcmToken) ==
  [notification |-> [title |-> args.title, body |-> args.body],
   data |-> Merge(("type" :> args.type) @@ ("title" :> args.title)
                  @@ ("body" :> args.body), Spread(args.data)),
   token |-> fcmToken,
   android |-> [priority |-> "high"],
   apns |-> [headers |-> ("apns-priority" :> "10")]]

\* a message whose data spreads the auxiliary object first
MessageArgsLast(args, fcmToken) ==
  [data |-> Merge(Spread(args.data),
                  ("type" :> args.type) @@ ("title" :> args.title)
                  @@ ("body" :> args.body)),
   token |-> fcmToken,
   android |-> [priority |-> "high"],
   apns |-> [headers |-> ("apns-priority" :> "10")]]

\* the message object of sendNotification: data-only, no notification field
BuildMessage(args, fcmToken) ==
  [data |-> Merge(("type" :> args.type) @@ ("title" :> args.title)
                  @@ ("body" :> args.body), Spread(args.data)),
   token |-> fcmToken,
   android |-> [priority |-> "high"],
   apns |-> [headers |-> ("apns-priority" :> "10")]]

(***************************************************************************)
(* Inputs                                                                  *)
(***************************************************************************)
UserIds == {Str("u1"), Str("u2"), Str("u3"), Str("ghost")}

\* rows inserted into the notifications table
FeedEvents ==
  [user_id : UserIds,
   type : {Str("like"), Str("comment"), Str("follow"), Str("reply"),
           Str("mention"), Str("share"), Str("constructor"), Undef},
   title : {Undef, Str(""), Str("Hi")},
   message : {Undef, Str("Custom text")},
   post_id : {Undef, Null, Str("p1"), Num("42")},
   comment_id : {Undef, Str("c1")},
   sender_id : {Null, Str("s1")}]

\* the events of the concurrent specification
FeedEventsSmall ==
  {e \in FeedEvents :
     /\ e.user_id \in {Str("u1"), Str("u2")}
     /\ e.type = Str("like")
     /\ e.title = Undef /\ e.message = Undef
     /\ e.post_id = Str("p1")
     /\ e.comment_id = Undef /\ e.sender_id = Null}

\* values of the optional data member of a manual-send body
DataValues ==
  {Undef, Null, Obj(<<>>),
   Obj("post_id" :> Str("p1")),
   Obj("count" :> Num("7")),
   Obj("title" :> Str("Spoofed")),
   Obj(("type" :> Str("x")) @@ ("title" :> Str("y")) @@ ("body" :> Str("z")))}

\* JSON bodies of POST /api/notifications/send
Requests ==
  [userId : {Undef, Str("")} \cup UserIds,
   title : {Undef, Str(""), Str("Hello")},
   body : {Undef, Str("World")},
   type : {Undef, Str("like")},
   data : DataValues]

\* the requests of the concurrent specification
RequestsSmall ==
  {r \in Requests :
     /\ r.userId \in {Str("u1"), Str("ghost")}
     /\ r.title \in {Undef, Str("Hello")}
     /\ r.body = Str("World") /\ r.type = Str("like")
     /\ r.data = Undef}

(***************************************************************************)
(* Handlers                                                                *)
(***************************************************************************)
\* the listener passes each identifier through unchanged
HandlerArgsNoDefault(event) ==
  [userId |-> event.user_id,
   title |-> Or(event.title, getTitleForType(event.type)),
   body |-> Or(event.message, getMessageForType(event.type)),
   type |-> event.type,
   data |-> Obj(("post_id" :> event.post_id)
                @@ ("comment_id" :> event.comment_id)
                @@ ("sender_id" :> event.sender_id))]

\* the arguments the feed callback passes to sendNotification
HandlerArgs(event) ==
  [userId |-> event.user_id,
   title |-> Or(event.title, getTitleForType(event.type)),
   body |-> Or(event.message, getMessageForType(event.type)),
   type |-> event.type,
   data |-> Obj(("post_id" :> Or(event.post_id, Str("")))
                @@ ("comment_id" :> Or(event.comment_id, Str("")))
                @@ ("sender_id" :> Or(event.sender_id, Str(""))))]

\* a validation that tests userId alone
MissingUserIdOnly(req) == ~Truthy(req.userId)

\* !userId || !title || !body || !type
MissingFields(req) ==
  ~Truthy(req.userId) \/ ~Truthy(req.title) \/ ~Truthy(req.body)
    \/ ~Truthy(req.type)

\* the arguments the route passes; data = {} stands in for an undefined data
RequestArgs(req) ==
  [userId |-> req.userId, title |-> req.title, body |-> req.body,
   type |-> req.type,
   data |-> IF req.data = Undef THEN Obj(<<>>) ELSE req.data]

NewTask(id, src, event, req, args) ==
  [id |-> id, src |-> src, event |-> event, req |-> req, args |-> args,
   pc |-> "lookup", lookup |-> None, message |-> None, ret |-> None,
   err |-> None, resp |-> None, seenFailed |-> lastFailed]

\* the feed callback up to the await of the profile lookup
NewFeedTask(e) == NewTask(delivered + 1, "feed", e, None, HandlerArgs(e))

\* the route up to its first await, or up to the 400 response
NewHttpTask(r) ==
  IF MissingFields(r)
    THEN [NewTask(requests + 1, "http", None, r, None) EXCEPT
            !.pc = "responded",
            !.resp = [status |-> 400,
                      body |-> [error |-> Str("Missing required fields")]]]
    ELSE NewTask(requests + 1, "http", None, r, RequestArgs(r))

\* sendNotification from the resolution of the lookup to its next await or
\* its return
AfterLookup(t, res) ==
  IF ~HasToken(res)
    THEN [t EXCEPT !.pc = "returned", !.lookup = res, !.ret = Null]
    ELSE [t EXCEPT !.pc = "send", !.lookup = res,
                   !.message = BuildMessage(t.args, res.data.fcm_token)]

DeliveryId == Str("projects/p/messages/1")
DeliveryError == Str("messaging/internal-error")

\* sendNotification from the settlement of admin.messaging().send
AfterSend(t, ok) ==
  IF ok THEN [t EXCEPT !.pc = "returned", !.ret = DeliveryId]
  ELSE [t EXCEPT !.pc = "raised", !.err = DeliveryError]

\* a route that answers 200 whatever the dispatch outcome
ResponseAlwaysOk(t) ==
  [status |-> 200, body |-> [success |-> TRUE, messageId |-> Null]]

\* the response of the route after the await of sendNotification
ResponseFor(t) ==
  IF t.pc = "raised"
    THEN [status |-> 500, body |-> [error |-> t.err]]
    ELSE [status |-> 200, body |-> [success |-> TRUE, messageId |-> t.ret]]

Running == lifecycle \in {"Listening", "Draining"}

(***************************************************************************)
(* Actions                                                                 *)
(***************************************************************************)
Init ==
  /\ lifecycle = "Starting"
  /\ accepting = FALSE
  /\ subscribed = FALSE
  /\ adminApp = "active"
  /\ exitCode = "none"
  /\ tasks = {}
  /\ delivered = 0
  /\ requests = 0
  /\ lastFailed = 0

\* app.listen callback: the port is bound, the feed subscription starts
Listen ==
  /\ lifecycle = "Starting"
  /\ lifecycle' = "Listening"
  /\ accepting' = TRUE
  /\ subscribed' = TRUE
  /\ UNCHANGED <<adminApp, exitCode, tasks, delivered, requests, lastFailed>>

\* the feed delivers an INSERT event to the subscription callback
FeedInsertOf(events, room) ==
  /\ Running /\ subscribed
  /\ delivered < MaxEvents
  /\ room
  /\ \E e \in events : tasks' = tasks \cup {NewFeedTask(e)}
  /\ delivered' = delivered + 1
  /\ UNCHANGED <<lifecycle, accepting, subscribed, adminApp, exitCode,
                 requests, lastFailed>>

\* a client posts to /api/notifications/send
ManualSendOf(reqs, room) ==
  /\ lifecycle = "Listening" /\ accepting
  /\ requests < MaxRequests
  /\ room
  /\ \E r \in reqs : tasks' = tasks \cup {NewHttpTask(r)}
  /\ requests' = requests + 1
  /\ UNCHANGED <<lifecycle, accepting, subscribed, adminApp, exitCode,
                 delivered, lastFailed>>

\* the profile lookup of one suspended sendNotification settles
LookupResolves ==
  /\ Running
  /\ \E t \in tasks : \E transportOk \in BOOLEAN :
       /\ t.pc = "lookup"
       /\ tasks' = (tasks \ {t})
                     \cup {AfterLookup(t, ProfileLookup(t.args.userId, transportOk))}
  /\ UNCHANGED <<lifecycle, accepting, subscribed, adminApp, exitCode,
                 delivered, requests, lastFailed>>

\* the delivery call of one suspended sendNotification settles: the service
\* returns a message identifier or the call rejects (invalid payload,
\* invalid token, transport failure)
SendResolves ==
  /\ Running
  /\ \E t \in tasks : \E ok \in BOOLEAN :
       /\ t.pc = "send"
       /\ tasks' = (tasks \ {t}) \cup {AfterSend(t, ok)}
  /\ UNCHANGED <<lifecycle, accepting, subscribed, adminApp, exitCode,
                 delivered, requests, lastFailed>>

\* the feed callback resumes after sendNotification returned
HandlerDone ==
  /\ Running
  /\ \E t \in tasks :
       /\ t.src = "feed" /\ t.pc = "returned"
       /\ tasks' = tasks \ {t}
  /\ UNCHANGED <<lifecycle, accepting, subscribed, adminApp, exitCode,
                 delivered, requests, lastFailed>>

\* a feed callback without the try/catch: the rejection is unhandled and
\* ends the process
HandlerUncaught ==
  /\ Running
  /\ \E t \in tasks :
       /\ t.src = "feed" /\ t.pc = "raised"
       /\ tasks' = tasks \ {t}
       /\ lastFailed' = t.id
  /\ lifecycle' = "Stopped"
  /\ subscribed' = FALSE
  /\ exitCode' = "1"
  /\ UNCHANGED <<accepting, adminApp, delivered, requests>>

\* the feed callback resumes in its catch block: the error is logged
HandlerCatch ==
  /\ Running
  /\ \E t \in tasks :
       /\ t.src = "feed" /\ t.pc = "raised"
       /\ tasks' = tasks \ {t}
       /\ lastFailed' = t.id
  /\ UNCHANGED <<lifecycle, accepting, subscribed, adminApp, exitCode,
                 delivered, requests>>

\* the route resumes after sendNotification settled and answers
Respond ==
  /\ Running
  /\ \E t \in tasks :
       /\ t.src = "http" /\ t.pc \in {"returned", "raised"}
       /\ tasks' = (tasks \ {t})
                     \cup {[t EXCEPT !.pc = "responded", !.resp = ResponseFor(t)]}
  /\ UNCHANGED <<lifecycle, accepting, subscribed, adminApp, exitCode,
                 delivered, requests, lastFailed>>

\* the client has read the response and the connection ends
ConnectionEnd ==
  /\ Running
  /\ \E t \in tasks :
       /\ t.src = "http" /\ t.pc = "responded"
       /\ tasks' = tasks \ {t}
  /\ UNCHANGED <<lifecycle, accepting, subscribed, adminApp, exitCode,
                 delivered, requests, lastFailed>>

\* SIGTERM: server.close stops the server from accepting connections
Sigterm ==
  /\ lifecycle = "Listening"
  /\ lifecycle' = "Draining"
  /\ accepting' = FALSE
  /\ UNCHANGED <<subscribed, adminApp, exitCode, tasks, delivered, requests,
                 lastFailed>>

\* the callback of server.close, run once every connection has ended:
\* admin.app().delete() is called, its promise is not awaited, and
\* process.exit(0) runs in the same turn
CloseCallback ==
  /\ lifecycle = "Draining"
  /\ \A t \in tasks : t.src # "http"
  /\ adminApp' = "deleting"
  /\ lifecycle' = "Stopped"
  /\ exitCode' = "0"
  /\ UNCHANGED <<accepting, subscribed, tasks, delivered, requests, lastFailed>>

\* concurrent handlers over a small set of inputs
FeedInsert == FeedInsertOf(FeedEventsSmall, Cardinality(tasks) < MaxInFlight)

ManualSend == ManualSendOf(RequestsSmall, Cardinality(tasks) < MaxInFlight)

Next ==
  \/ Listen
  \/ FeedInsert
  \/ ManualSend
  \/ LookupResolves
  \/ SendResolves
  \/ HandlerDone
  \/ HandlerCatch
  \/ Respond
  \/ ConnectionEnd
  \/ Sigterm
  \/ CloseCallback

Spec == Init /\ [][Next]_vars

\* one handler at a time over the whole input sets
FeedInsertSeq == FeedInsertOf(FeedEvents, tasks = {})

ManualSendSeq == ManualSendOf(Requests, tasks = {})

NextSeq ==
  \/ Listen
  \/ FeedInsertSeq
  \/ ManualSendSeq
  \/ LookupResolves
  \/ SendResolves
  \/ HandlerDone
  \/ HandlerCatch
  \/ Respond
  \/ ConnectionEnd
  \/ Sigterm
  \/ CloseCallback

SpecSeq == Init /\ [][NextSeq]_vars

(***************************************************************************)
(* Properties                                                              *)
(***************************************************************************)
\* the lookup returned no error and a non-empty token
LookupGaveToken(res) ==
  /\ res.error = Null
  /\ res.data # Null
  /\ res.data.fcm_token.t = "string"
  /\ res.data.fcm_token.v # ""

FeedTasks == {t \in tasks : t.src = "feed"}
HttpTasks == {t \in tasks : t.src = "http"}
Submitted == {t \in tasks : t.message # None}

\* C1: sendNotification builds a payload and calls the delivery service only
\* when the lookup returned no error and a non-empty fcm_token; in every
\* other case (no record, token unset or empty, lookup error) it returns
\* null, builds no payload, issues no delivery call and does not raise.
C1_DeliveryOnlyWithToken ==
  \A t \in tasks :
    /\ t.lookup = None => t.message = None
    /\ t.lookup # None =>
         IF LookupGaveToken(t.lookup)
           THEN /\ t.message # None
                /\ t.message.token = t.lookup.data.fcm_token
           ELSE /\ t.message = None
                /\ t.ret = Null
                /\ t.err = None
                /\ t.pc \in {"returned", "responded"}

C1_Witness ==
  \E t \in tasks :
    /\ t.lookup # None
    /\ t.lookup.error = Null
    /\ t.lookup.data # Null
    /\ t.lookup.data.fcm_token \in {Null, Str("")}
    /\ t.pc = "returned" /\ t.ret = Null

\* C2: a failure while one feed event is processed is caught in that
\* event's handler: the step that handles it leaves the process and the
\* subscription running, and every event the feed delivers after a failure
\* is handed to sendNotification (its profile lookup is issued).
C2_FailureIsolated ==
  [][/\ lastFailed' # lastFailed =>
          /\ subscribed'
          /\ lifecycle' = lifecycle
          /\ exitCode' = exitCode
     /\ (lastFailed > 0 /\ lifecycle' # "Stopped") => subscribed'
     /\ (lastFailed > 0 /\ delivered' = delivered + 1) =>
          \E t \in tasks' \ tasks :
            /\ t.src = "feed" /\ t.id = delivered'
            /\ t.pc = "lookup" /\ t.args = HandlerArgs(t.event)]_vars

C2_Witness ==
  \E t \in FeedTasks : t.seenFailed > 0 /\ t.id > t.seenFailed

\* the delivery identifier the original claim C3 expects for a user
UserHasToken(userId) ==
  /\ userId.t = "string"
  /\ userId.v \in DOMAIN Profiles
  /\ Truthy(Profiles[userId.v].fcm_token)

AllPresent(req) ==
  req.userId # Undef /\ req.title # Undef /\ req.body # Undef
    /\ req.type # Undef

AllTruthy(req) ==
  Truthy(req.userId) /\ Truthy(req.title) /\ Truthy(req.body)
    /\ Truthy(req.type)

\* the response a request must get, given the identifier a successful
\* dispatch is expected to carry
Mirrors(t, expectedId) ==
  /\ (t.pc = "responded") <=> (t.resp # None)
  /\ t.pc = "responded" =>
       IF t.err # None
         THEN t.resp = [status |-> 500, body |-> [error |-> t.err]]
         ELSE t.resp = [status |-> 200,
                        body |-> [success |-> TRUE, messageId |-> expectedId]]

\* C3 as stated: every request whose four fields are present gets one
\* response, 500 exactly when sendNotification raised, otherwise 200 with
\* the delivery identifier if the user has a token and null if not.
C3_Original ==
  \A t \in HttpTasks :
    AllPresent(t.req) =>
      Mirrors(t, IF UserHasToken(t.req.userId) THEN DeliveryId ELSE Null)

\* C3 amended: every request whose four fields are present and truthy
\* (non-empty) gets one response, 500 with {error} exactly when
\* sendNotification raised, otherwise 200 with {success: true, messageId},
\* messageId being the delivery identifier if the token lookup returned no
\* error and a non-empty token, and null otherwise.
C3_ResponseMirrorsDispatch ==
  \A t \in HttpTasks :
    AllTruthy(t.req) =>
      /\ Mirrors(t, IF t.lookup # None /\ LookupGaveToken(t.lookup)
                      THEN DeliveryId ELSE Null)
      /\ (t.err # None) <=>
           ((t.pc = "responded" /\ t.resp.status = 500) \/ t.pc = "raised")

C3_Witness ==
  \E t \in HttpTasks :
    /\ AllTruthy(t.req)
    /\ t.pc = "responded"
    /\ t.resp.status = 200
    /\ t.resp.body.messageId = DeliveryId

\* C4: a request in which userId, title, body or type is missing is
\* answered 400 {error: "Missing required fields"} and never reaches the
\* dispatcher: no token lookup, no payload, no delivery call.
C4_MissingFieldRejected ==
  \A t \in HttpTasks :
    ~AllPresent(t.req) =>
      /\ t.pc = "responded"
      /\ t.resp = [status |-> 400,
                   body |-> [error |-> Str("Missing required fields")]]
      /\ t.args = None /\ t.lookup = None /\ t.message = None
      /\ t.ret = None /\ t.err = None

C4_Witness ==
  \E t \in HttpTasks :
    /\ t.req.userId = Str("u1") /\ t.req.title = Undef
    /\ t.req.body # Undef /\ t.req.type # Undef
    /\ t.resp # None /\ t.resp.status = 400

\* C5: every message submitted to the delivery service, from the feed or
\* from the manual route and for any auxiliary data, has exactly the
\* top-level keys data, token, android and apns (no notification field);
\* type, title and body are keys of data, and the other three members hold
\* only the device token and the fixed priority hints.
C5_DataOnlyPayload ==
  \A t \in Submitted :
    /\ DOMAIN t.message = {"data", "token", "android", "apns"}
    /\ {"type", "title", "body"} \cup DOMAIN Spread(t.args.data)
         = DOMAIN t.message.data
    /\ t.message.token = t.lookup.data.fcm_token
    /\ t.message.android = [priority |-> "high"]
    /\ t.message.apns = [headers |-> ("apns-priority" :> "10")]

C5_Witness ==
  \E t \in Submitted :
    /\ t.src = "http" /\ t.pc = "send"
    /\ DOMAIN Spread(t.args.data) = {"count"}
    /\ "notification" \notin DOMAIN t.message

\* C6: every value in the data mapping of a constructed payload is a
\* string, whatever the types of the values in the event or in the
\* request's data object.
C6_DataValuesAreStrings ==
  \A t \in Submitted :
    \A k \in DOMAIN t.message.data : t.message.data[k].t = "string"

\* C7: the data mapping of a payload built for a feed event has the keys
\* post_id, comment_id and sender_id, and each of them that the event left
\* absent or null is the empty string.
C7_AuxIdsNeverAbsent ==
  \A t \in FeedTasks \cap Submitted :
    /\ {"post_id", "comment_id", "sender_id"} \subseteq DOMAIN t.message.data
    /\ t.event.post_id \in {Undef, Null} =>
         t.message.data["post_id"] = Str("")
    /\ t.event.comment_id \in {Undef, Null} =>
         t.message.data["comment_id"] = Str("")
    /\ t.event.sender_id \in {Undef, Null} =>
         t.message.data["sender_id"] = Str("")

C7_Witness ==
  \E t \in FeedTasks \cap Submitted :
    /\ t.event.post_id = Null
    /\ t.event.comment_id = Undef
    /\ t.event.sender_id = Str("s1")
    /\ t.message.data["post_id"] = Str("")

\* the title and body C8 expects for a category value
ExpectedTitle(type) ==
  IF type.t = "string" /\ type.v \in Categories
    THEN titles[type.v] ELSE FallbackTitle

ExpectedMessage(type) ==
  IF type.t = "string" /\ type.v \in Categories
    THEN messages[type.v] ELSE FallbackMessage

\* C8: for an event without its own title / message the listener dispatches
\* the formatter's value: the fixed text of the category for like, comment,
\* follow, reply and mention, the generic fallback for every other
\* category value, an absent one included.
C8_FormatterFallback ==
  \A t \in FeedTasks :
    /\ t.event.title = Undef => t.args.title = ExpectedTitle(t.event.type)
    /\ t.event.message = Undef => t.args.body = ExpectedMessage(t.event.type)

\* C9: when the process has exited after SIGTERM, the server had stopped
\* accepting connections, the delete of the admin app had completed, and
\* the exit code is 0.  (The promise of admin.app().delete() settles in a
\* later turn of the event loop; CloseCallback leaves the app "deleting"
\* because process.exit(0) ends the loop in the turn that made the call.)
C9_ReleasedBeforeExit ==
  lifecycle = "Stopped" =>
    /\ ~accepting
    /\ adminApp = "deleted"
    /\ exitCode = "0"

\* C10 as stated: data.type, data.title and data.body of a submitted
\* payload equal the type, title and body arguments, for any auxiliary data.
C10_Original ==
  \A t \in Submitted :
    /\ t.message.data["type"] = t.args.type
    /\ t.message.data["title"] = t.args.title
    /\ t.message.data["body"] = t.args.body

\* C10 amended: each of data.type, data.title and data.body equals the
\* argument of that name unless the auxiliary data object has an own key
\* of that name, in which case it is the auxiliary object's value.
C10_ArgsUnlessShadowed ==
  \A t \in Submitted :
    \A k \in {"type", "title", "body"} :
      t.message.data[k] =
        IF t.args.data.t = "object" /\ k \in DOMAIN t.args.data.props
          THEN t.args.data.props[k]
          ELSE (CASE k = "type" -> t.args.type
                  [] k = "title" -> t.args.title
                  [] k = "body" -> t.args.body)

C10_Witness ==
  \E t \in Submitted :
    /\ t.src = "http"
    /\ t.args.title = Str("Hello")
    /\ t.args.data = Obj("title" :> Str("Spoofed"))
    /\ t.message.data["title"] = Str("Spoofed")
    /\ t.message.data["body"] = t.args.body

====
